---- MODULE Spec2Model ----
(***************************************************************************)
(* Model of the chatbot retrieval pipeline of the exam allocation system:  *)
(*   - backend/controllers/chatbotController.js  (structured path:         *)
(*     processQuery = analyzeQuery -> fetchRelevantData ->                 *)
(*     formatContextData -> generateResponse)                              *)
(*   - backend/routes/chatbotRoutes.js  (semantic path: POST /cache-data   *)
(*     rebuilds the vector collection, POST /admin searches it)            *)
(*                                                                         *)
(* Three specifications share the variables:                               *)
(*   Spec        the structured path, one request at a time                *)
(*   SpecIndex   initializeServices and POST /cache-data                   *)
(*   SpecSearch  POST /admin over a populated collection                   *)
(***************************************************************************)
EXTENDS Integers, Sequences, FiniteSets, TLC

(***************************************************************************)
(* Bounds of the model                                                     *)
(***************************************************************************)
\* longest list a database lookup returns
MaxRecords == 2
\* largest exam.subjects list of a returned exam (the sampling cap is 3)
MaxSubjects == 4
\* largest allocation.students list of a returned record (the cap is 5)
MaxStudents == 6

(***************************************************************************)
(* JavaScript values                                                       *)
(***************************************************************************)
\* null / undefined / an absent slot of the classifier's result
Null == "null"

\* strings that the code inspects are sequences of characters; <<>> is the
\* empty (falsy) string and also stands for an absent name slot
NoName == <<>>
RaoName == <<"R", "a", "o">>

LowerChar(c) ==
  CASE c = "R" -> "r"
    [] c = "A" -> "a"
    [] c = "I" -> "i"
    [] OTHER -> c

\* String.prototype.toLowerCase
ToLowerCase(s) == [i \in 1..Len(s) |-> LowerChar(s[i])]

\* String.prototype.includes
Includes(s, t) ==
  \E i \in 0..(Len(s) - Len(t)) : SubSeq(s, i + 1, i + Len(t)) = t

\* mutant: the sample is the whole list
Slice0_Whole(s, n) == s

\* Array.prototype.slice(0, n)
Slice0(s, n) == SubSeq(s, 1, IF Len(s) < n THEN Len(s) ELSE n)

\* an array value and an object value held under a key of contextData.data
Arr(items) == [type |-> "array", items |-> items, fields |-> <<>>]
Obj(fields) == [type |-> "object", items |-> <<>>, fields |-> fields]

(***************************************************************************)
(* Callers (the `user` argument of processQuery)                           *)
(***************************************************************************)
NoUser == [isNull |-> TRUE, role |-> Null, _id |-> Null, name |-> NoName]
AdminUser == [isNull |-> FALSE, role |-> "Admin", _id |-> "a1", name |-> <<"A">>]
FacultyUser == [isNull |-> FALSE, role |-> "Faculty", _id |-> "f1", name |-> RaoName]
Users == {NoUser, AdminUser, FacultyUser}

(***************************************************************************)
(* Results of queryAnalyzer.analyzeQuery: every slot may be absent.  Only  *)
(* the slots read by the branch of the classified intent are varied; the   *)
(* slots that are only copied into a filter (exam_name, building, date...) *)
(* are left absent.                                                        *)
(***************************************************************************)
TimePeriods == {Null, "past", "future", "present"}

Slots(intent, tp, fid, fname, room, sname, scode) ==
  [intent |-> intent, time_period |-> tp, faculty_id |-> fid,
   faculty_name |-> fname, room_number |-> room,
   subject_name |-> sname, subject_code |-> scode]

AnalysisResults ==
  {Slots("exam_info", tp, Null, NoName, Null, sn, sc) :
      tp \in {Null, "present"}, sn \in {Null, "Maths"}, sc \in {Null, "MA101"}}
  \cup {Slots("faculty_allocation", tp, fid, fn, Null, Null, Null) :
      tp \in TimePeriods, fid \in {Null, "f2"},
      fn \in {NoName, <<"I", "y", "e", "r">>}}
  \cup {Slots("room_info", tp, Null, NoName, rn, Null, Null) :
      tp \in {Null, "past"}, rn \in {Null, "101"}}
  \cup {Slots("student_allocation", tp, Null, NoName, rn, Null, Null) :
      tp \in {Null, "future"}, rn \in {Null, "101"}}
  \cup {Slots("faculty_info", Null, Null, fn, Null, Null, Null) :
      fn \in {NoName, <<"r", "A">>, <<"I", "y", "e", "r">>}}
  \cup {Slots(i, tp, Null, NoName, Null, Null, Null) :
      i \in {"system_stats", "general", Null}, tp \in {Null, "future"}}

(***************************************************************************)
(* Records returned by the database service (an external collaborator).    *)
(* One record shape serves every entity kind.                              *)
(***************************************************************************)
Rec(kind, subjects, students, roomId) ==
  [kind |-> kind, subjects |-> subjects, students |-> students, roomId |-> roomId]

Ids(n) == [i \in 1..n |-> i]

\* exam.subjects holds 0 or MaxSubjects entries
ExamRecs == {Rec("exam", Ids(n), <<>>, Null) : n \in {0, MaxSubjects}}
SubjectRecs == {Rec("subject", <<>>, <<>>, Null)}
RoomRecs == {Rec("room", <<>>, <<>>, Null)}
FacultyRecs == {Rec("faculty", <<>>, <<>>, Null)}
\* allocation.roomId is null, a raw id, or a populated room object
RoomRefs == {Null, "raw", "populated"}
FacultyAllocRecs == {Rec("allocation", <<>>, <<>>, r) : r \in RoomRefs}
\* allocation.students holds 0 or MaxStudents entries
StudentAllocRecs == {Rec("studentAllocation", <<>>, Ids(n), Null) : n \in {0, MaxStudents}}

\* every list of at most MaxRecords records of the universe U
RECURSIVE ListsUpTo(_, _)
ListsUpTo(U, n) ==
  IF n = 0 THEN {<<>>}
  ELSE LET shorter == ListsUpTo(U, n - 1)
       IN shorter \cup {Append(l, r) : l \in {s \in shorter : Len(s) = n - 1}, r \in U}

\* what a lookup can do: return a value, or throw
Returned(v) == [ok |-> TRUE, value |-> v]
Thrown(v) == [ok |-> FALSE, value |-> v]
Outcomes(U) ==
  {Returned(Arr(l)) : l \in ListsUpTo(U, MaxRecords)} \cup {Thrown(Arr(<<>>))}

SystemStats ==
  [totalExams |-> 2, totalRooms |-> 3, totalFaculty |-> 4,
   totalSubjects |-> 5, currentAllocations |-> 1, upcomingExams |-> 1]
StatsOutcomes == {Returned(Obj(SystemStats)), Thrown(Obj(SystemStats))}

SearchHits(n) ==
  [exams |-> [i \in 1..n |-> Rec("exam", <<>>, <<>>, Null)],
   subjects |-> <<>>,
   rooms |-> [i \in 1..n |-> Rec("room", <<>>, <<>>, Null)],
   faculty |-> <<>>]
SearchOutcomes ==
  {Returned(Obj(SearchHits(n))) : n \in 0..MaxRecords} \cup {Thrown(Obj(SearchHits(0)))}

(***************************************************************************)
(* The outcomes of the lookups one request can issue, one field per call   *)
(* site of the branch of its intent.                                       *)
(***************************************************************************)
IntentOf(analysisResult) ==
  IF analysisResult.intent = Null THEN "general_query" ELSE analysisResult.intent

OraclesFor(intent) ==
  CASE intent = "exam_info" ->
         [exams : Outcomes(ExamRecs), subjects : Outcomes(SubjectRecs),
          facultyExams : Outcomes(FacultyAllocRecs)]
    [] intent = "faculty_allocation" ->
         [allocations : Outcomes(FacultyAllocRecs), faculty : Outcomes(FacultyRecs)]
    [] intent = "room_info" ->
         [rooms : Outcomes(RoomRecs), roomAllocations : Outcomes(StudentAllocRecs),
          facultyRoomAllocations : Outcomes(FacultyAllocRecs),
          facultyRooms : Outcomes(FacultyAllocRecs)]
    [] intent = "student_allocation" ->
         [studentAllocations : Outcomes(StudentAllocRecs),
          facultyAllocations : Outcomes(FacultyAllocRecs),
          facultyRoomStudents : Outcomes(StudentAllocRecs)]
    [] intent = "faculty_info" ->
         [faculty : Outcomes(FacultyRecs)]
    [] intent = "system_stats" ->
         [stats : StatsOutcomes, total : Outcomes(FacultyAllocRecs),
          upcoming : Outcomes(FacultyAllocRecs), past : Outcomes(FacultyAllocRecs)]
    [] OTHER ->
         [searchResults : SearchOutcomes, facultyData : Outcomes(FacultyAllocRecs)]

(***************************************************************************)
(* ChatbotController.fetchRelevantData                                     *)
(***************************************************************************)
\* timeParams: the boolean flag set from analysisResult.time_period
TimeParams(analysisResult) ==
  CASE analysisResult.time_period = "past" -> {"past"}
    [] analysisResult.time_period = "future" -> {"future"}
    [] analysisResult.time_period = "present" -> {"present"}
    [] OTHER -> {}

\* one call of the database service: the function, the keys of the filter
\* object literal, and the values of the keys that scope the lookup
Lookup(fn, keys, facultyId, facultyName, roomNumber, roomIds, roomNumbers) ==
  [fn |-> fn, keys |-> keys, facultyId |-> facultyId, facultyName |-> facultyName,
   roomNumber |-> roomNumber, roomIds |-> roomIds, roomNumbers |-> roomNumbers,
   returned |-> 0]

\* the call as it is logged once its promise has settled: the number of
\* records it resolved with, or -1 when it rejected
Settle(call, outcome) ==
  [call EXCEPT !.returned = IF outcome.ok THEN Len(outcome.value.items) ELSE -1]

\* mutant: the caller's id is taken whatever the role
FacultyIdOf_AnyRole(user) ==
  IF ~user.isNull THEN user._id ELSE Null

\* const facultyId = user && user.role === 'Faculty' ? user._id : null
FacultyIdOf(user) ==
  IF ~user.isNull /\ user.role = "Faculty" THEN user._id ELSE Null

\* const facultyName = user && user.role === 'Faculty' ? user.name
\*                                                   : analysisResult.faculty_name
FacultyNameOf(analysisResult, user) ==
  IF ~user.isNull /\ user.role = "Faculty" THEN user.name
  ELSE analysisResult.faculty_name

\* mutant: the classifier's value wins over the caller's
OrElse_Second(a, b) == IF b # Null THEN b ELSE a

\* facultyId || analysisResult.faculty_id
OrElse(a, b) == IF a # Null THEN a ELSE b

\* mutant: the catch block starts again from an empty bundle
Assign_EmptiedOnThrow(st, key, call, outcome) ==
  IF st.threw THEN st
  ELSE [calls |-> Append(st.calls, Settle(call, outcome)),
        data |-> IF outcome.ok
                 THEN Append(st.data, [key |-> key, value |-> outcome.value])
                 ELSE <<>>,
        threw |-> ~outcome.ok]

\* contextData.data[key] = await <lookup>: the call is issued; its value is
\* stored under the key unless it throws, and nothing runs after a throw
Assign(st, key, call, outcome) ==
  IF st.threw THEN st
  ELSE [calls |-> Append(st.calls, Settle(call, outcome)),
        data |-> IF outcome.ok
                 THEN Append(st.data, [key |-> key, value |-> outcome.value])
                 ELSE st.data,
        threw |-> ~outcome.ok]

\* contextData.data[key] = <value computed without a lookup>
Store(st, key, value) ==
  IF st.threw THEN st
  ELSE [st EXCEPT !.data = Append(st.data, [key |-> key, value |-> value])]

\* await <lookup> whose value is kept in a local
Await(st, call, outcome) ==
  IF st.threw THEN st
  ELSE [st EXCEPT !.calls = Append(st.calls, Settle(call, outcome)), !.threw = ~outcome.ok]

NoArgs(fn, keys) == Lookup(fn, keys, Null, NoName, Null, <<>>, <<>>)

ExamInfo(st, analysisResult, user, o) ==
  LET facultyId == FacultyIdOf(user)
      s1 == Assign(st, "exams", NoArgs("findExams", {"name", "year", "semester"}),
                   o.exams)
      s2 == IF analysisResult.subject_name # Null \/ analysisResult.subject_code # Null
            THEN Assign(s1, "subjects",
                        NoArgs("findSubjects", {"name", "subjectCode", "semester", "date"}),
                        o.subjects)
            ELSE s1
  IN IF facultyId # Null
     THEN Assign(s2, "facultyExams",
                 Lookup("findFacultyAllocations",
                        {"facultyId"} \cup TimeParams(analysisResult),
                        facultyId, NoName, Null, <<>>, <<>>),
                 o.facultyExams)
     ELSE s2

FacultyAllocation(st, analysisResult, user, o) ==
  LET facultyId == FacultyIdOf(user)
      facultyName == FacultyNameOf(analysisResult, user)
      s1 == Assign(st, "allocations",
                   Lookup("findFacultyAllocations",
                          {"facultyName", "facultyId", "roomId", "date"}
                             \cup TimeParams(analysisResult),
                          OrElse(facultyId, analysisResult.faculty_id),
                          facultyName, Null, <<>>, <<>>),
                   o.allocations)
  IN IF facultyName # NoName
     THEN Assign(s1, "faculty",
                 Lookup("findFaculty", {"name"}, Null, facultyName, Null, <<>>, <<>>),
                 o.faculty)
     ELSE s1

RoomInfo(st, analysisResult, user, o) ==
  LET facultyId == FacultyIdOf(user)
      s1 == Assign(st, "rooms",
                   Lookup("findRooms", {"building", "roomNumber", "floor"},
                          Null, NoName, analysisResult.room_number, <<>>, <<>>),
                   o.rooms)
      s2 == IF analysisResult.room_number # Null
            THEN Assign(s1, "roomAllocations",
                        Lookup("findStudentAllocations",
                               {"roomNumber", "date"} \cup TimeParams(analysisResult),
                               Null, NoName, analysisResult.room_number, <<>>, <<>>),
                        o.roomAllocations)
            ELSE s1
      s3 == IF analysisResult.room_number # Null
            THEN Assign(s2, "facultyRoomAllocations",
                        Lookup("findFacultyAllocations",
                               {"roomNumber", "date"} \cup TimeParams(analysisResult),
                               Null, NoName, analysisResult.room_number, <<>>, <<>>),
                        o.facultyRoomAllocations)
            ELSE s2
  IN IF facultyId # Null
     THEN Assign(s3, "facultyRooms",
                 Lookup("findFacultyAllocations",
                        {"facultyId"} \cup TimeParams(analysisResult),
                        facultyId, NoName, Null, <<>>, <<>>),
                 o.facultyRooms)
     ELSE s3

\* facultyAllocations.map(alloc => alloc.roomId ? alloc.roomId._id || alloc.roomId
\*                                              : null).filter(Boolean)
RoomIdsOf(allocs) ==
  LET kept == SelectSeq(allocs, LAMBDA a : a.roomId # Null)
  IN [i \in 1..Len(kept) |-> kept[i].roomId]

\* facultyAllocations.map(alloc => alloc.roomId ? alloc.roomId.roomNumber
\*                                              : null).filter(Boolean)
\* (a raw id has no roomNumber property)
RoomNumbersOf(allocs) ==
  LET kept == SelectSeq(allocs, LAMBDA a : a.roomId = "populated")
  IN [i \in 1..Len(kept) |-> "101"]

\* mutant: the scoped lookup is issued whatever the first hop returned
StudentAllocation_Unconditional(st, analysisResult, user, o) ==
  LET facultyId == FacultyIdOf(user)
      s1 == Assign(st, "studentAllocations",
                   Lookup("findStudentAllocations",
                          {"roomNumber", "semester", "student", "date"}
                             \cup TimeParams(analysisResult),
                          Null, NoName, analysisResult.room_number, <<>>, <<>>),
                   o.studentAllocations)
  IN IF facultyId # Null /\ analysisResult.room_number = Null
     THEN LET s2 == Await(s1,
                          Lookup("findFacultyAllocations",
                                 {"facultyId", "date"} \cup TimeParams(analysisResult),
                                 facultyId, NoName, Null, <<>>, <<>>),
                          o.facultyAllocations)
              facultyAllocations == o.facultyAllocations.value.items
          IN IF ~s2.threw
             THEN Assign(s2, "facultyRoomStudents",
                         Lookup("findStudentAllocations",
                                {"roomIds", "roomNumbers", "date"}
                                   \cup TimeParams(analysisResult),
                                Null, NoName, Null,
                                RoomIdsOf(facultyAllocations),
                                RoomNumbersOf(facultyAllocations)),
                         o.facultyRoomStudents)
             ELSE s2
     ELSE s1

\* case 'student_allocation': the unscoped lookup, then for a Faculty caller
\* who named no room the two-hop lookup
StudentAllocation(st, analysisResult, user, o) ==
  LET facultyId == FacultyIdOf(user)
      s1 == Assign(st, "studentAllocations",
                   Lookup("findStudentAllocations",
                          {"roomNumber", "semester", "student", "date"}
                             \cup TimeParams(analysisResult),
                          Null, NoName, analysisResult.room_number, <<>>, <<>>),
                   o.studentAllocations)
  IN IF facultyId # Null /\ analysisResult.room_number = Null
     THEN LET s2 == Await(s1,
                          Lookup("findFacultyAllocations",
                                 {"facultyId", "date"} \cup TimeParams(analysisResult),
                                 facultyId, NoName, Null, <<>>, <<>>),
                          o.facultyAllocations)
              facultyAllocations == o.facultyAllocations.value.items
          IN IF ~s2.threw /\ Len(facultyAllocations) > 0
             THEN Assign(s2, "facultyRoomStudents",
                         Lookup("findStudentAllocations",
                                {"roomIds", "roomNumbers", "date"}
                                   \cup TimeParams(analysisResult),
                                Null, NoName, Null,
                                RoomIdsOf(facultyAllocations),
                                RoomNumbersOf(facultyAllocations)),
                         o.facultyRoomStudents)
             ELSE s2
     ELSE s1

\* the caller's own profile, as a record of the faculty list
OwnProfile(user) == Rec("faculty", <<>>, <<>>, Null)

FacultyInfo(st, analysisResult, user, o) ==
  LET facultyId == FacultyIdOf(user)
      facultyName == FacultyNameOf(analysisResult, user)
  IN IF facultyId # Null
        /\ (analysisResult.faculty_name = NoName
            \/ Includes(ToLowerCase(facultyName),
                        ToLowerCase(analysisResult.faculty_name)))
     THEN Store(st, "faculty", Arr(<<OwnProfile(user)>>))
     ELSE Assign(st, "faculty",
                 Lookup("findFaculty", {"name", "email", "designation"},
                        Null, analysisResult.faculty_name, Null, <<>>, <<>>),
                 o.faculty)

\* mutant: every signed-in role reads the global counters
MayReadGlobalStats_AnyRole(user) == user.isNull \/ user.role \in {"Admin", "Faculty"}

\* if (!user || user.role === 'Admin')
MayReadGlobalStats(user) == user.isNull \/ user.role = "Admin"

SystemStatsBranch(st, analysisResult, user, o) ==
  LET facultyId == FacultyIdOf(user)
      OwnAllocs(flags) ==
        Lookup("findFacultyAllocations", {"facultyId"} \cup flags,
               facultyId, NoName, Null, <<>>, <<>>)
  IN IF MayReadGlobalStats(user)
     THEN Assign(st, "stats", NoArgs("getSystemStats", {}), o.stats)
     ELSE LET s1 == Await(st, OwnAllocs({}), o.total)
              s2 == Await(s1, OwnAllocs({"future"}), o.upcoming)
              s3 == Await(s2, OwnAllocs({"past"}), o.past)
          IN Store(s3, "facultyStats",
                   Obj([totalAllocations |-> Len(o.total.value.items),
                        upcomingAllocations |-> Len(o.upcoming.value.items),
                        pastAllocations |-> Len(o.past.value.items)]))

\* the identifiers that resolve inside fetchRelevantData: its parameters,
\* its locals and the bindings of the module
IdentifiersInScope ==
  {"analysisResult", "user", "contextData", "timeParams", "facultyId",
   "facultyName", "queryAnalyzer", "dbService", "axios"}

\* reading an identifier that does not resolve throws a ReferenceError
Resolves(identifier) == identifier \in IdentifiersInScope

DefaultBranch(st, analysisResult, user, o) ==
  LET facultyId == FacultyIdOf(user)
      s1 == IF Resolves("query")
            THEN Assign(st, "searchResults", NoArgs("searchAll", {}), o.searchResults)
            ELSE [st EXCEPT !.threw = TRUE]
  IN IF facultyId # Null
     THEN Assign(s1, "facultyData",
                 Lookup("findFacultyAllocations",
                        {"facultyId"} \cup TimeParams(analysisResult),
                        facultyId, NoName, Null, <<>>, <<>>),
                 o.facultyData)
     ELSE s1

\* the whole function: the try block runs the branch of the intent; the
\* catch block returns contextData as it stands
FetchRelevantData(analysisResult, user, o) ==
  LET intent == IntentOf(analysisResult)
      st0 == [calls |-> <<>>, data |-> <<>>, threw |-> FALSE]
      st == CASE intent = "exam_info" -> ExamInfo(st0, analysisResult, user, o)
              [] intent = "faculty_allocation" -> FacultyAllocation(st0, analysisResult, user, o)
              [] intent = "room_info" -> RoomInfo(st0, analysisResult, user, o)
              [] intent = "student_allocation" -> StudentAllocation(st0, analysisResult, user, o)
              [] intent = "faculty_info" -> FacultyInfo(st0, analysisResult, user, o)
              [] intent = "system_stats" -> SystemStatsBranch(st0, analysisResult, user, o)
              [] OTHER -> DefaultBranch(st0, analysisResult, user, o)
  IN [contextData |-> [intent |-> intent, data |-> st.data,
                       userRole |-> IF user.isNull THEN Null ELSE user.role,
                       userName |-> IF user.isNull THEN NoName ELSE user.name],
      calls |-> st.calls,
      caught |-> st.threw]

(***************************************************************************)
(* ChatbotController.formatContextData.  The formatted context is modelled *)
(* as its sequence of lines; a line keeps its label, the number it prints  *)
(* (an index or a count), the items it lists and whether it ends in '...'. *)
(***************************************************************************)
Line(tag, num, items, more) == [tag |-> tag, num |-> num, items |-> items, more |-> more]
Plain(tag) == Line(tag, 0, <<>>, FALSE)
Numbered(tag, n) == Line(tag, n, <<>>, FALSE)

\* the item-sampling caps of the formatter
SUBJECT_SAMPLE == 3
STUDENT_SAMPLE == 5
SEARCH_SAMPLE == 3

\* dataType.toUpperCase() followed by ':'
HeaderOf(dataType) ==
  CASE dataType = "exams" -> "EXAMS:"
    [] dataType = "subjects" -> "SUBJECTS:"
    [] dataType = "rooms" -> "ROOMS:"
    [] dataType = "allocations" -> "ALLOCATIONS:"
    [] dataType = "facultyExams" -> "FACULTYEXAMS:"
    [] dataType = "facultyRooms" -> "FACULTYROOMS:"
    [] dataType = "studentAllocations" -> "STUDENTALLOCATIONS:"
    [] dataType = "roomAllocations" -> "ROOMALLOCATIONS:"
    [] dataType = "facultyRoomStudents" -> "FACULTYROOMSTUDENTS:"
    [] dataType = "facultyRoomAllocations" -> "FACULTYROOMALLOCATIONS:"
    [] dataType = "faculty" -> "FACULTY:"
    [] dataType = "stats" -> "STATS:"
    [] dataType = "facultyStats" -> "FACULTYSTATS:"
    [] dataType = "searchResults" -> "SEARCHRESULTS:"
    [] dataType = "facultyData" -> "FACULTYDATA:"
    [] OTHER -> "?:"

Headers ==
  {HeaderOf(k) : k \in {"exams", "subjects", "rooms", "allocations", "facultyExams",
                        "facultyRooms", "studentAllocations", "roomAllocations",
                        "facultyRoomStudents", "facultyRoomAllocations", "faculty",
                        "stats", "facultyStats", "searchResults", "facultyData"}}

\* mutant: only the `!data` test is made
IsEmptyData_OnlyFalsy(value) == FALSE

\* if (!data || (Array.isArray(data) && data.length === 0) ||
\*     (typeof data === 'object' && Object.keys(data).length === 0)) return;
IsEmptyData(value) ==
  \/ value.type = "array" /\ Len(value.items) = 0
  \/ value.type = "object" /\ DOMAIN value.fields = {}

FormatExam(exam, index) ==
  <<Numbered("Exam", index)>>
  \o (IF Len(exam.subjects) > 0
      THEN <<Numbered("Subjects", Len(exam.subjects)),
             Line("Sample Subjects", 0, Slice0(exam.subjects, SUBJECT_SAMPLE),
                  Len(exam.subjects) > SUBJECT_SAMPLE)>>
      ELSE <<>>)
  \o <<Plain("")>>

FormatSubject(subject, index) ==
  <<Numbered("Subject", index), Plain("Semester"), Plain("")>>

FormatRoom(room, index) ==
  <<Numbered("Room", index), Plain("Floor, Capacity"), Plain("")>>

FormatAllocation(allocation, index) ==
  <<Numbered("Allocation", index), Plain("Faculty")>>
  \o (IF allocation.roomId # Null THEN <<Plain("Room")>> ELSE <<>>)
  \o <<Plain("")>>

FormatStudentAllocation(allocation, index) ==
  <<Numbered("Student Allocation", index), Plain("Room"),
    Numbered("Students Count", Len(allocation.students))>>
  \o (IF Len(allocation.students) > 0
      THEN <<Line("Sample Students", 0, Slice0(allocation.students, STUDENT_SAMPLE),
                  Len(allocation.students) > STUDENT_SAMPLE)>>
      ELSE <<>>)
  \o <<Plain("")>>

FormatFaculty(faculty, index) ==
  <<Numbered("Faculty", index), Plain("Email"), Plain("Designation"),
    Plain("Available"), Plain("")>>

FormatRecord(dataType, record, index) ==
  CASE dataType = "exams" -> FormatExam(record, index)
    [] dataType = "subjects" -> FormatSubject(record, index)
    [] dataType = "rooms" -> FormatRoom(record, index)
    [] dataType \in {"allocations", "facultyExams", "facultyRooms"} ->
         FormatAllocation(record, index)
    [] dataType \in {"studentAllocations", "roomAllocations", "facultyRoomStudents"} ->
         FormatStudentAllocation(record, index)
    [] dataType = "faculty" -> FormatFaculty(record, index)
    [] OTHER -> <<>>

\* data.forEach((record, index) => ...)
RECURSIVE FormatRecords(_, _, _)
FormatRecords(dataType, items, done) ==
  IF done = Len(items) THEN <<>>
  ELSE FormatRecord(dataType, items[done + 1], done + 1)
       \o FormatRecords(dataType, items, done + 1)

\* one entity kind of the general search results
Found(tag, hits) ==
  IF Len(hits) > 0
  THEN <<Line(tag, Len(hits), Slice0(hits, SEARCH_SAMPLE), FALSE)>>
  ELSE <<>>

FormatSearchResults(data) ==
  Found("Exams found", data.exams) \o Found("Subjects found", data.subjects)
  \o Found("Rooms found", data.rooms) \o Found("Faculty found", data.faculty)
  \o <<Plain("")>>

FormatStats(data) ==
  <<Numbered("Total Exams", data.totalExams), Numbered("Total Rooms", data.totalRooms),
    Numbered("Total Faculty", data.totalFaculty),
    Numbered("Total Subjects", data.totalSubjects),
    Numbered("Current Allocations", data.currentAllocations),
    Numbered("Upcoming Exams", data.upcomingExams), Plain("")>>

FormatFacultyStats(data) ==
  <<Numbered("Total Allocations", data.totalAllocations),
    Numbered("Upcoming Allocations", data.upcomingAllocations),
    Numbered("Past Allocations", data.pastAllocations), Plain("")>>

\* the body of Object.keys(contextData.data).forEach(dataType => ...)
FormatDataset(dataType, value) ==
  IF IsEmptyData(value) THEN <<>>
  ELSE <<Plain(HeaderOf(dataType))>>
       \o (CASE dataType = "stats" -> FormatStats(value.fields)
             [] dataType = "facultyStats" -> FormatFacultyStats(value.fields)
             [] dataType = "searchResults" -> FormatSearchResults(value.fields)
             [] dataType \in {"facultyRoomAllocations", "facultyData"} -> <<>>
             [] OTHER -> FormatRecords(dataType, value.items, 0))

RECURSIVE FormatDatasets(_, _)
FormatDatasets(data, done) ==
  IF done = Len(data) THEN <<>>
  ELSE FormatDataset(data[done + 1].key, data[done + 1].value)
       \o FormatDatasets(data, done + 1)

FormatContextData(contextData) ==
  <<Plain("CONTEXT INFORMATION FOR QUERY:"), Plain("Intent")>>
  \o (IF contextData.userRole # Null
      THEN <<Plain("User Role")>>
           \o (IF contextData.userName # NoName THEN <<Plain("User Name")>> ELSE <<>>)
      ELSE <<>>)
  \o <<Plain("")>>
  \o FormatDatasets(contextData.data, 0)

(***************************************************************************)
(* State                                                                   *)
(***************************************************************************)
VARIABLES
  pc,               \* position of the request inside processQuery
  analysisResult,   \* result of queryAnalyzer.analyzeQuery
  user,             \* the caller
  contextData,      \* the bundle returned by fetchRelevantData
  calls,            \* the database lookups issued by fetchRelevantData, in order
  caught,           \* whether the catch block of fetchRelevantData ran
  formattedContext, \* the lines returned by formatContextData
  chatCalls,        \* number of chat-completion calls of the request
  chatOutcome,      \* how the chat-completion call of the request ended
  response,         \* the string returned to the caller
  initState,        \* initializeServices: "running", "ready" or "failed"
  astraCollection,  \* the module-level collection handle (Null while undefined)
  collection,       \* the _id's of the documents held by exam_embeddings
  sources,          \* the MongoDB entities a rebuild reads
  rpc,              \* position of each POST /cache-data request
  deleted,          \* whether the deleteAll call of the request is over
  tasks,            \* the insert promises of each request
  rebuildResponse,  \* the response sent for each request
  snapshot,         \* the collection as it was when the request was answered
  pred,             \* the request answered last before this one arrived
  overlapped,       \* whether another request was in flight during this one
  lastAnswered,     \* the request answered last
  spc,              \* position of the POST /admin request
  query,            \* req.body.query of the POST /admin request
  results,          \* the documents returned by the vector search
  relevantResults,  \* the results kept by the relevance filter
  context,          \* the sections of the context built from them
  adminChatCalls,   \* number of chat-completion calls of the request
  adminResponse,    \* the response of the request
  gpc,              \* position of the generateResponse call
  sender,           \* which generateResponse runs: "controller" or "chatbot"
  userInput,        \* the current user turn
  conversationHistory, \* the caller's history array
  messages,         \* the messages array sent to the chat model
  vectorStore,      \* whether knowledgeBase.vectorStore is set
  savedMessages,    \* number of conversationService.addMessage calls that returned
  generated         \* what the call returned or threw

routerVars ==
  <<pc, analysisResult, user, contextData, calls, caught, formattedContext,
    chatCalls, chatOutcome, response>>

indexVars ==
  <<initState, astraCollection, collection, sources, rpc, deleted, tasks,
    rebuildResponse, snapshot, pred, overlapped, lastAnswered>>

searchVars ==
  <<spc, query, results, relevantResults, context, adminChatCalls, adminResponse>>

chatVars ==
  <<gpc, sender, userInput, conversationHistory, messages, vectorStore,
    savedMessages, generated>>

vars == <<routerVars, indexVars, searchVars, chatVars>>

NoAnalysis == Slots(Null, Null, Null, NoName, Null, Null, Null)
NoContext == [intent |-> Null, data |-> <<>>, userRole |-> Null, userName |-> NoName]

\* the strings processQuery can return
ProcessingApology == "I'm sorry, I encountered an error while processing your query. Please try again."
GenerationApology == "I'm sorry, I encountered an error while generating a response. Please try again."
ModelText == "responseText"
NoResponse == "none"

\* how axios.post(.../chat/completions) with timeout 30000 can end: a body
\* with choices[0].message.content, a body without it, or a rejection
ChatOutcomes == {"ok", "malformed body", "transport error", "timeout", "non-2xx"}
NoChatCall == "none"

\* mutant: the catch block of generateResponse rethrows
GenerateResponse_Rethrows(outcome) ==
  IF outcome = "ok" THEN ModelText ELSE ProcessingApology

\* generateResponse: the await of the post and the read of
\* response.data.choices[0].message.content are inside the try; the catch
\* block returns the fixed string
GenerateResponse(outcome) ==
  LET posted == outcome \in {"ok", "malformed body"}
      read == posted /\ outcome = "ok"
  IN IF read THEN ModelText ELSE GenerationApology

RouterIdle ==
  /\ pc = "idle"
  /\ analysisResult = NoAnalysis
  /\ user = NoUser
  /\ contextData = NoContext
  /\ calls = <<>>
  /\ caught = FALSE
  /\ formattedContext = <<>>
  /\ chatCalls = 0
  /\ chatOutcome = NoChatCall
  /\ response = NoResponse

\* Init is defined with the index below

(***************************************************************************)
(* ChatbotController.processQuery, one action per awaited step             *)
(***************************************************************************)
\* Step 1: const analysisResult = await queryAnalyzer.analyzeQuery(query)
AnalyzeQuery ==
  /\ pc = "idle"
  /\ \E a \in AnalysisResults, u \in Users :
       /\ analysisResult' = a
       /\ user' = u
  /\ pc' = "analyzed"
  /\ UNCHANGED <<contextData, calls, caught, formattedContext, chatCalls, chatOutcome,
                 response>>
  /\ UNCHANGED <<indexVars, searchVars, chatVars>>

\* Step 1 throws: the catch block of processQuery answers
AnalyzeQueryThrows ==
  /\ pc = "idle"
  /\ \E u \in Users : user' = u
  /\ response' = ProcessingApology
  /\ pc' = "responded"
  /\ UNCHANGED <<analysisResult, contextData, calls, caught, formattedContext, chatCalls,
                 chatOutcome>>
  /\ UNCHANGED <<indexVars, searchVars, chatVars>>

\* Step 2: const contextData = await this.fetchRelevantData(analysisResult, user)
FetchStep ==
  /\ pc = "analyzed"
  /\ \E o \in OraclesFor(IntentOf(analysisResult)) :
       LET r == FetchRelevantData(analysisResult, user, o)
       IN /\ contextData' = r.contextData
          /\ calls' = r.calls
          /\ caught' = r.caught
  /\ pc' = "fetched"
  /\ UNCHANGED <<analysisResult, user, formattedContext, chatCalls, chatOutcome, response>>
  /\ UNCHANGED <<indexVars, searchVars, chatVars>>

\* Step 3: const formattedContext = this.formatContextData(contextData)
FormatStep ==
  /\ pc = "fetched"
  /\ formattedContext' = FormatContextData(contextData)
  /\ pc' = "formatted"
  /\ UNCHANGED <<analysisResult, user, contextData, calls, caught, chatCalls, chatOutcome,
                 response>>
  /\ UNCHANGED <<indexVars, searchVars, chatVars>>

\* Step 4: generateResponse posts to the chat-completion endpoint; a failed
\* call is caught inside generateResponse
GenerateStep ==
  /\ pc = "formatted"
  /\ chatCalls' = chatCalls + 1
  /\ \E outcome \in ChatOutcomes :
       /\ chatOutcome' = outcome
       /\ response' = GenerateResponse(outcome)
  /\ pc' = "responded"
  /\ UNCHANGED <<analysisResult, user, contextData, calls, caught, formattedContext>>
  /\ UNCHANGED <<indexVars, searchVars, chatVars>>

\* the request is over; the controller keeps nothing between requests
Return ==
  /\ pc = "responded"
  /\ pc' = "idle"
  /\ analysisResult' = NoAnalysis
  /\ user' = NoUser
  /\ contextData' = NoContext
  /\ calls' = <<>>
  /\ caught' = FALSE
  /\ formattedContext' = <<>>
  /\ chatCalls' = 0
  /\ chatOutcome' = NoChatCall
  /\ response' = NoResponse
  /\ UNCHANGED <<indexVars, searchVars, chatVars>>

(***************************************************************************)
(* The vector index: initializeServices and POST /cache-data               *)
(* (backend/routes/chatbotRoutes.js)                                       *)
(***************************************************************************)
\* number of POST /cache-data requests of a behaviour
MaxRebuilds == 2
\* number of POST /cache-data requests in flight at the same time
MaxInFlight == 2
\* number of exams, allocations and room allocations in MongoDB
MaxExams == 1
MaxAllocations == 1
MaxRoomAllocations == 1

Rebuilds == 1..MaxRebuilds

\* how the references of an allocation or room allocation resolve:
\*   "resolved"  every populated reference is found in its lookup map
\*   "unmapped"  a populated reference is missing from its lookup map
\*               (e.g. facultyId names a user whose role is not 'Faculty')
\*   "nullRef"   populate() left null for a reference to a deleted document
JoinStates == {"resolved", "unmapped", "nullRef"}

RECURSIVE SeqsUpTo(_, _)
SeqsUpTo(U, n) ==
  IF n = 0 THEN {<<>>}
  ELSE LET shorter == SeqsUpTo(U, n - 1)
       IN shorter \cup {Append(l, x) : l \in {q \in shorter : Len(q) = n - 1}, x \in U}

\* the entities in MongoDB: exams, whether some subject refers to a deleted
\* exam (subject.exam populated as null), allocations and room allocations
SourceSets ==
  {src \in [exams : 0..MaxExams,
            danglingSubject : BOOLEAN,
            allocations : SeqsUpTo(JoinStates, MaxAllocations),
            roomAllocations : SeqsUpTo(JoinStates, MaxRoomAllocations)] :
     src.danglingSubject => src.exams > 0}

NoSources ==
  [exams |-> 0, danglingSubject |-> FALSE, allocations |-> <<>>, roomAllocations |-> <<>>]

\* _id: `exam_${exam._id}`, `alloc_${alloc._id}`, `roomalloc_${roomAlloc._id}`
DocId(type, id) == [type |-> type, id |-> id]

AllDocs ==
  {DocId("exam", i) : i \in 1..MaxExams}
  \cup {DocId("allocation", i) : i \in 1..MaxAllocations}
  \cup {DocId("room_allocation", i) : i \in 1..MaxRoomAllocations}

\* the source records a rebuild maps over, by the _id of their document
SourceDocs(src) ==
  {DocId("exam", i) : i \in 1..src.exams}
  \cup {DocId("allocation", i) : i \in DOMAIN src.allocations}
  \cup {DocId("room_allocation", i) : i \in DOMAIN src.roomAllocations}

\* the state of the promise of one async mapper when the synchronous part of
\* its body has run:
\*   exam: subjects.filter(s => s.exam._id ...) throws on a null subject.exam
\*   allocation / room allocation: x.examId._id throws on a null reference;
\*     an unresolved map lookup returns null; otherwise the body suspends at
\*     await getEmbedding(content)
TaskAtCreation(src, doc) ==
  CASE doc.type = "exam" ->
         IF src.danglingSubject THEN "rejected" ELSE "pending"
    [] doc.type = "allocation" ->
         (CASE src.allocations[doc.id] = "nullRef" -> "rejected"
            [] src.allocations[doc.id] = "unmapped" -> "skipped"
            [] OTHER -> "pending")
    [] OTHER ->
         (CASE src.roomAllocations[doc.id] = "nullRef" -> "rejected"
            [] src.roomAllocations[doc.id] = "unmapped" -> "skipped"
            [] OTHER -> "pending")

\* examInserts, allocInserts and roomAllocInserts; .filter(Boolean) keeps
\* every promise, a promise being truthy
TasksAtCreation(src) ==
  [d \in AllDocs |-> IF d \in SourceDocs(src) THEN TaskAtCreation(src, d) ELSE "none"]

NoTasks == [d \in AllDocs |-> "none"]

\* the settlement of await Promise.all([...]) as far as it is known:
\* rejected with the first rejection (a TypeError of a mapper, a refused
\* insertOne, or the error of getEmbedding), fulfilled when nothing is pending
Settled(ts) ==
  CASE \E d \in AllDocs : ts[d] \in {"rejected", "unembedded"} -> "failed"
    [] \A d \in AllDocs : ts[d] # "pending" -> "success"
    [] OTHER -> "none"

\* a request is in flight from its arrival until its handler and every
\* insert promise it started have finished
InFlight(r) ==
  /\ rpc[r] # "idle"
  /\ \/ rebuildResponse[r] = "none"
     \/ \E d \in AllDocs : tasks[r][d] = "pending"
     \/ (rebuildResponse[r] # "notReady" /\ ~deleted[r])

\* mutant: the handler does not wait for deleteAll
ResumesAfterDeleteAll_NoAwait(done) == TRUE

\* await astraCollection.deleteAll(): the handler resumes once it is done
ResumesAfterDeleteAll(done) == done

\* astraCollection.insertOne(document): a second document with the _id of
\* an existing one is refused
InsertOne(docs, doc) ==
  IF doc \in docs THEN [ok |-> FALSE, docs |-> docs]
  ELSE [ok |-> TRUE, docs |-> docs \cup {doc}]

IndexIdle ==
  /\ initState = "running"
  /\ astraCollection = Null
  /\ collection = {}
  /\ rpc = [r \in Rebuilds |-> "idle"]
  /\ deleted = [r \in Rebuilds |-> FALSE]
  /\ tasks = [r \in Rebuilds |-> NoTasks]
  /\ rebuildResponse = [r \in Rebuilds |-> "none"]
  /\ snapshot = [r \in Rebuilds |-> {}]
  /\ pred = [r \in Rebuilds |-> 0]
  /\ overlapped = [r \in Rebuilds |-> FALSE]
  /\ lastAnswered = 0

\* length of the longest query string
MaxQueryLen == 1

\* a value received as a query or message: undefined, a number, or a string
\* of blanks and letters
Chars == {" ", "a"}
Undefined == [type |-> "undefined", chars |-> <<>>]
Num == [type |-> "number", chars |-> <<>>]
Str(chars) == [type |-> "string", chars |-> chars]
Queries == {Undefined, Num} \cup {Str(c) : c \in SeqsUpTo(Chars, MaxQueryLen)}

\* String.prototype.trim
RECURSIVE TrimStart(_)
TrimStart(chars) ==
  IF chars # <<>> /\ Head(chars) = " " THEN TrimStart(Tail(chars)) ELSE chars

RECURSIVE TrimEnd(_)
TrimEnd(chars) ==
  IF chars # <<>> /\ chars[Len(chars)] = " "
  THEN TrimEnd(SubSeq(chars, 1, Len(chars) - 1))
  ELSE chars

Trim(chars) == TrimEnd(TrimStart(chars))

\* !value: undefined and the empty string (the number is not 0)
Falsy(value) ==
  value.type = "undefined" \/ (value.type = "string" /\ value.chars = <<>>)

\* validateMessage of controllers/chatbot.js: throws 'Invalid message format'
\* unless the message is a string with a character other than a blank
ValidateMessage(message) ==
  ~(Falsy(message) \/ message.type # "string" \/ Trim(message.chars) = <<>>)

NoAdminResponse == [status |-> 0, body |-> "none"]

SearchIdle ==
  /\ spc = "idle"
  /\ query = Undefined
  /\ results = <<>>
  /\ relevantResults = <<>>
  /\ context = <<>>
  /\ adminChatCalls = 0
  /\ adminResponse = NoAdminResponse

(***************************************************************************)
(* The messages sent to the chat model by the two generateResponse         *)
(* functions: ChatbotController.generateResponse and generateResponse of   *)
(* controllers/chatbot.js                                                  *)
(***************************************************************************)
\* number of turns of the longest conversation history
MaxTurns == 6

\* this.CONVERSATION_HISTORY_LENGTH
CONVERSATION_HISTORY_LENGTH == 5

\* one entry of a history array: its position in the caller's array, its
\* role and whether its content is a string
Turn(id, role, stringContent) ==
  [id |-> id, role |-> role, stringContent |-> stringContent]

\* a conversation of n turns, user and assistant alternating; when odd > 0
\* the turn at that position is not a user or assistant turn with a string
\* content (its role is 'system')
History(n, odd) ==
  [isArray |-> TRUE,
   items |-> [i \in 1..n |->
                Turn(i, CASE i = odd -> "system"
                          [] i % 2 = 1 -> "user"
                          [] OTHER -> "assistant",
                     TRUE)]]

\* a history argument that is not an array (null)
NotAnArray == [isArray |-> FALSE, items |-> <<>>]

Histories ==
  {NotAnArray} \cup {History(n, odd) : n \in 0..MaxTurns, odd \in {0, 2}}

\* Array.prototype.slice(-n)
SliceLast(s, n) ==
  IF Len(s) <= n THEN s ELSE SubSeq(s, Len(s) - n + 1, Len(s))

\* one message of the array sent to the chat model: its role and the turn of
\* the caller's history it carries (0 for a message built by the function)
Message(role, kind, turn) == [role |-> role, kind |-> kind, turn |-> turn]
SystemMessage == Message("system", "prompt", 0)
ContextMessage == Message("system", "context", 0)
CurrentTurn == Message("user", "current", 0)
FromHistory(turns) ==
  [i \in DOMAIN turns |-> Message(turns[i].role, "history", turns[i].id)]

\* ChatbotController.generateResponse: messages = [system], then
\* push(...conversationHistory.slice(-5)), then push({role: "user", ...})
ControllerMessages(history) ==
  <<SystemMessage>>
  \o FromHistory(SliceLast(history.items, CONVERSATION_HISTORY_LENGTH))
  \o <<CurrentTurn>>

\* validateChatHistory of controllers/chatbot.js: [] for a non-array,
\* otherwise the entries with role user or assistant and a string content
ValidateChatHistory(chatHistory) ==
  IF ~chatHistory.isArray THEN <<>>
  ELSE SelectSeq(chatHistory.items,
                 LAMBDA msg : msg.role \in {"user", "assistant"} /\ msg.stringContent)

\* generateResponse of controllers/chatbot.js: the system message, the
\* context message when the knowledge base returned text, one message per
\* validated entry, the current input
ChatbotMessages(validatedHistory, hasContext) ==
  <<SystemMessage>>
  \o (IF hasContext THEN <<ContextMessage>> ELSE <<>>)
  \o FromHistory(validatedHistory)
  \o <<CurrentTurn>>

NotGenerated == [status |-> "none", value |-> "none"]

ChatIdle ==
  /\ gpc = "idle"
  /\ sender = "none"
  /\ userInput = Undefined
  /\ conversationHistory = NotAnArray
  /\ messages = <<>>
  /\ vectorStore = FALSE
  /\ savedMessages = 0
  /\ generated = NotGenerated

Init == RouterIdle /\ IndexIdle /\ SearchIdle /\ ChatIdle /\ sources = NoSources

InitIndex ==
  RouterIdle /\ IndexIdle /\ SearchIdle /\ ChatIdle /\ sources \in SourceSets

\* initializeServices: drop the old collection, create a new one and keep
\* its handle
InitializeServices ==
  /\ initState = "running"
  /\ initState' = "ready"
  /\ astraCollection' = "exam_embeddings"
  /\ collection' = {}
  /\ UNCHANGED <<sources, rpc, deleted, tasks, rebuildResponse, snapshot, pred,
                 overlapped, lastAnswered>>
  /\ UNCHANGED <<routerVars, searchVars, chatVars>>

\* initializeServices throws: the handle stays undefined
InitializeServicesFails ==
  /\ initState = "running"
  /\ initState' = "failed"
  /\ UNCHANGED <<astraCollection, collection, sources, rpc, deleted, tasks,
                 rebuildResponse, snapshot, pred, overlapped, lastAnswered>>
  /\ UNCHANGED <<routerVars, searchVars, chatVars>>

\* the response of request r is sent with the collection as it is in docs
Answer(r, outcome, docs) ==
  /\ rebuildResponse' = [rebuildResponse EXCEPT ![r] = outcome]
  /\ snapshot' = [snapshot EXCEPT ![r] = docs]
  /\ lastAnswered' = r

\* POST /cache-data arrives: if (!astraCollection) throw ...; otherwise
\* deleteAll is called
CacheData(r) ==
  /\ rpc[r] = "idle"
  /\ \A q \in Rebuilds : q < r => rpc[q] # "idle"
  /\ Cardinality({q \in Rebuilds : InFlight(q)}) < MaxInFlight
  /\ pred' = [pred EXCEPT ![r] = lastAnswered]
  /\ overlapped' = [q \in Rebuilds |->
                      IF q = r THEN \E o \in Rebuilds : InFlight(o)
                      ELSE overlapped[q] \/ InFlight(q)]
  /\ IF astraCollection = Null
     THEN /\ rpc' = [rpc EXCEPT ![r] = "done"]
          /\ Answer(r, "notReady", collection)
     ELSE /\ rpc' = [rpc EXCEPT ![r] = "deleting"]
          /\ UNCHANGED <<rebuildResponse, snapshot, lastAnswered>>
  /\ UNCHANGED <<initState, astraCollection, collection, sources, deleted, tasks>>
  /\ UNCHANGED <<routerVars, searchVars, chatVars>>

\* the deleteAll called by the handler takes effect
DeleteAll(r) ==
  /\ rpc[r] \in {"deleting", "inserting", "done"}
  /\ rebuildResponse[r] # "notReady"
  /\ ~deleted[r]
  /\ collection' = {}
  /\ deleted' = [deleted EXCEPT ![r] = TRUE]
  /\ UNCHANGED <<initState, astraCollection, sources, rpc, tasks, rebuildResponse,
                 snapshot, pred, overlapped, lastAnswered>>
  /\ UNCHANGED <<routerVars, searchVars, chatVars>>

\* deleteAll, or one of the six find() calls, throws: the catch block
\* answers 500
RebuildThrows(r) ==
  /\ rpc[r] = "deleting"
  /\ rpc' = [rpc EXCEPT ![r] = "done"]
  /\ deleted' = [deleted EXCEPT ![r] = TRUE]
  /\ Answer(r, "failed", collection)
  /\ UNCHANGED <<initState, astraCollection, collection, sources, tasks,
                 pred, overlapped>>
  /\ UNCHANGED <<routerVars, searchVars, chatVars>>

\* the find() calls return; the lookup maps are built and the three map()
\* calls start one insert promise per source record; Promise.all of no
\* pending promise settles at once
StartInserts(r) ==
  /\ rpc[r] = "deleting"
  /\ ResumesAfterDeleteAll(deleted[r])
  /\ LET ts == TasksAtCreation(sources)
     IN /\ tasks' = [tasks EXCEPT ![r] = ts]
        /\ rpc' = [rpc EXCEPT ![r] =
                     IF \E d \in AllDocs : ts[d] = "pending" THEN "inserting" ELSE "done"]
        /\ IF Settled(ts) # "none"
           THEN Answer(r, Settled(ts), collection)
           ELSE UNCHANGED <<rebuildResponse, snapshot, lastAnswered>>
  /\ UNCHANGED <<initState, astraCollection, collection, sources, deleted, pred,
                 overlapped>>
  /\ UNCHANGED <<routerVars, searchVars, chatVars>>

\* one insert promise settles: getEmbedding returns and insertOne runs, or
\* getEmbedding throws 'Failed to generate embeddings' and insertOne is not
\* called; the first settlement that decides Promise.all is followed by the
\* response
SettleTask(r, doc, embedded) ==
  /\ rpc[r] = "inserting"
  /\ tasks[r][doc] = "pending"
  /\ LET ins == InsertOne(collection, doc)
         ok == embedded /\ ins.ok
         ts == [tasks[r] EXCEPT ![doc] = CASE ok -> "inserted"
                                           [] ~embedded -> "unembedded"
                                           [] OTHER -> "rejected"]
         docs == IF embedded THEN ins.docs ELSE collection
     IN /\ tasks' = [tasks EXCEPT ![r] = ts]
        /\ collection' = docs
        /\ rpc' = [rpc EXCEPT ![r] =
                     IF \E d \in AllDocs : ts[d] = "pending" THEN "inserting" ELSE "done"]
        /\ IF rebuildResponse[r] = "none" /\ Settled(ts) # "none"
           THEN Answer(r, Settled(ts), docs)
           ELSE UNCHANGED <<rebuildResponse, snapshot, lastAnswered>>
  /\ UNCHANGED <<initState, astraCollection, sources, deleted, pred, overlapped>>
  /\ UNCHANGED <<routerVars, searchVars, chatVars>>

NextIndex ==
  \/ InitializeServices
  \/ InitializeServicesFails
  \/ \E r \in Rebuilds : CacheData(r)
  \/ \E r \in Rebuilds : DeleteAll(r)
  \/ \E r \in Rebuilds : RebuildThrows(r)
  \/ \E r \in Rebuilds : StartInserts(r)
  \/ \E r \in Rebuilds, doc \in AllDocs, embedded \in BOOLEAN : SettleTask(r, doc, embedded)

SpecIndex == InitIndex /\ [][NextIndex]_vars

Next ==
  \/ AnalyzeQuery
  \/ AnalyzeQueryThrows
  \/ FetchStep
  \/ FormatStep
  \/ GenerateStep
  \/ Return

Spec == Init /\ [][Next]_vars

(***************************************************************************)
(* The semantic path: POST /admin (backend/routes/chatbotRoutes.js)        *)
(***************************************************************************)
\* number of documents of the largest collection searched
MaxIndexedDocs == 7

\* similarities are hundredths: 0.3 is 30
SEARCH_LIMIT == 7
MIN_SIMILARITY == 25
MIN_RELEVANCE == 30

\* the similarities a document can have to the query: below the retrieval
\* threshold, between the two thresholds, at the relevance threshold, above
SimilarityLevels == {20, 27, 30, 90}

DocTypes == <<"exam", "allocation", "room_allocation">>

\* the collections searched: empty, half full and full, the three document
\* types alternating
IndexedDocs(n) == {DocId(DocTypes[(i % 3) + 1], i) : i \in 1..n}
SearchCollections == {IndexedDocs(n) : n \in {0, MaxIndexedDocs \div 2, MaxIndexedDocs}}

\* the document of docs that the sort puts first: highest similarity, lowest
\* id among equals
Nearest(docs, sim) ==
  CHOOSE d \in docs :
    \A e \in docs : sim[d] > sim[e] \/ (sim[d] = sim[e] /\ d.id <= e.id)

RECURSIVE SortBySimilarity(_, _)
SortBySimilarity(docs, sim) ==
  IF docs = {} THEN <<>>
  ELSE LET d == Nearest(docs, sim)
       IN <<[metadata |-> [type |-> d.type], content |-> d, similarity |-> sim[d]]>>
          \o SortBySimilarity(docs \ {d}, sim)

\* astraCollection.find({}, {sort: {$vector}, limit: 7, includeSimilarity:
\* true, minSimilarity: 0.25}).toArray()
VectorFind(docs, sim) ==
  LET sorted == SortBySimilarity({d \in docs : sim[d] >= MIN_SIMILARITY}, sim)
  IN SubSeq(sorted, 1, IF Len(sorted) < SEARCH_LIMIT THEN Len(sorted) ELSE SEARCH_LIMIT)

\* mutant: a result at the threshold is dropped
RelevantResults_Strict(rs, threshold) ==
  SelectSeq(rs, LAMBDA r : r.similarity > threshold)

\* mutant: the comparison is the wrong way round
RelevantResults_Inverted(rs, threshold) ==
  SelectSeq(rs, LAMBDA r : r.similarity <= threshold)

\* results.filter(r => r.$similarity >= threshold)
RelevantResults(rs, threshold) ==
  SelectSeq(rs, LAMBDA r : r.similarity >= threshold)

\* the contents pushed for one metadata.type, in result order
ContextsOf(rs, type) ==
  LET kept == SelectSeq(rs, LAMBDA r : r.metadata.type = type)
  IN [i \in 1..Len(kept) |-> kept[i].content]

Section(header, contents) ==
  IF Len(contents) > 0 THEN <<[header |-> header, contents |-> contents]>> ELSE <<>>

\* the three sections of the context, each written when it has a document
BuildContext(rs) ==
  Section("EXAMS:", ContextsOf(rs, "exam"))
  \o Section("FACULTY ALLOCATIONS:", ContextsOf(rs, "allocation"))
  \o Section("ROOM ALLOCATIONS:", ContextsOf(rs, "room_allocation"))

NoRelevantData == "No relevant exam data available for this query."

AdminAnswers(status, body) ==
  adminResponse' = [status |-> status, body |-> body]

\* a populated collection behind a ready handle, or no handle at all
InitSearch ==
  /\ RouterIdle
  /\ SearchIdle
  /\ ChatIdle
  /\ sources = NoSources
  /\ rpc = [r \in Rebuilds |-> "idle"]
  /\ deleted = [r \in Rebuilds |-> FALSE]
  /\ tasks = [r \in Rebuilds |-> NoTasks]
  /\ rebuildResponse = [r \in Rebuilds |-> "none"]
  /\ snapshot = [r \in Rebuilds |-> {}]
  /\ pred = [r \in Rebuilds |-> 0]
  /\ overlapped = [r \in Rebuilds |-> FALSE]
  /\ lastAnswered = 0
  /\ \/ /\ initState = "ready"
        /\ astraCollection = "exam_embeddings"
        /\ collection \in SearchCollections
     \/ /\ initState \in {"running", "failed"}
        /\ astraCollection = Null
        /\ collection = {}

\* POST /admin arrives with req.body.query: if (!query) throw ...; otherwise
\* getEmbedding(query) is called
AdminQuery(q) ==
  /\ spc = "idle"
  /\ query' = q
  /\ IF ~Falsy(q)
     THEN /\ spc' = "embedding"
          /\ UNCHANGED adminResponse
     ELSE /\ spc' = "answered"
          /\ AdminAnswers(500, "Chatbot failed: Query is required")
  /\ UNCHANGED <<results, relevantResults, context, adminChatCalls>>
  /\ UNCHANGED <<routerVars, indexVars, chatVars>>

\* getEmbedding throws
AdminEmbeddingFails ==
  /\ spc = "embedding"
  /\ spc' = "answered"
  /\ AdminAnswers(500, "Chatbot failed: Failed to generate embeddings")
  /\ UNCHANGED <<query, results, relevantResults, context, adminChatCalls>>
  /\ UNCHANGED <<routerVars, indexVars, chatVars>>

\* getEmbedding returns and astraCollection.find is evaluated on the
\* undefined handle: the TypeError is answered by the catch block
AdminSearchNoHandle ==
  /\ spc = "embedding"
  /\ astraCollection = Null
  /\ spc' = "answered"
  /\ AdminAnswers(500, "Chatbot failed: Cannot read properties of undefined (reading 'find')")
  /\ UNCHANGED <<query, results, relevantResults, context, adminChatCalls>>
  /\ UNCHANGED <<routerVars, indexVars, chatVars>>

\* getEmbedding returns and the search throws
AdminSearchThrows ==
  /\ spc = "embedding"
  /\ astraCollection # Null
  /\ spc' = "answered"
  /\ AdminAnswers(500, "Chatbot failed: search")
  /\ UNCHANGED <<query, results, relevantResults, context, adminChatCalls>>
  /\ UNCHANGED <<routerVars, indexVars, chatVars>>

\* the search returns: the results are filtered; without a relevant result
\* the handler answers at once, otherwise it builds the context and posts
\* the chat completion
AdminSearch ==
  /\ spc = "embedding"
  /\ astraCollection # Null
  /\ \E sim \in [collection -> SimilarityLevels] :
       LET rs == VectorFind(collection, sim)
           relevant == RelevantResults(rs, MIN_RELEVANCE)
       IN /\ results' = rs
          /\ relevantResults' = relevant
          /\ IF Len(relevant) = 0
             THEN /\ spc' = "answered"
                  /\ AdminAnswers(200, NoRelevantData)
                  /\ UNCHANGED <<context, adminChatCalls>>
             ELSE /\ spc' = "generating"
                  /\ context' = BuildContext(relevant)
                  /\ adminChatCalls' = adminChatCalls + 1
                  /\ UNCHANGED adminResponse
  /\ UNCHANGED query
  /\ UNCHANGED <<routerVars, indexVars, chatVars>>

\* the chat completion returns, or throws into the catch block
AdminChatSettles(ok) ==
  /\ spc = "generating"
  /\ spc' = "answered"
  /\ IF ok THEN AdminAnswers(200, "answer")
     ELSE AdminAnswers(500, "Chatbot failed: chat completion")
  /\ UNCHANGED <<query, results, relevantResults, context, adminChatCalls>>
  /\ UNCHANGED <<routerVars, indexVars, chatVars>>

\* the request is over; the handler keeps nothing between requests
AdminDone ==
  /\ spc = "answered"
  /\ spc' = "idle"
  /\ query' = Undefined
  /\ results' = <<>>
  /\ relevantResults' = <<>>
  /\ context' = <<>>
  /\ adminChatCalls' = 0
  /\ adminResponse' = NoAdminResponse
  /\ UNCHANGED <<routerVars, indexVars, chatVars>>

NextSearch ==
  \/ \E q \in Queries : AdminQuery(q)
  \/ AdminEmbeddingFails
  \/ AdminSearchNoHandle
  \/ AdminSearchThrows
  \/ AdminSearch
  \/ \E ok \in BOOLEAN : AdminChatSettles(ok)
  \/ AdminDone

SpecSearch == InitSearch /\ [][NextSearch]_vars

(***************************************************************************)
(* The two generateResponse functions, one action per awaited step         *)
(***************************************************************************)
Generated(status, value) ==
  generated' = [status |-> status, value |-> value]

\* ChatbotController.generateResponse is called: the messages are built and
\* posted; conversationHistory.slice on a value that is not an array throws
\* inside the try and the catch block returns the fixed string
ControllerGenerate(q, history) ==
  /\ gpc = "idle"
  /\ sender' = "controller"
  /\ userInput' = q
  /\ conversationHistory' = history
  /\ IF history.isArray
     THEN /\ messages' = ControllerMessages(history)
          /\ gpc' = "posted"
          /\ UNCHANGED generated
     ELSE /\ messages' = <<>>
          /\ gpc' = "done"
          /\ Generated("returned", GenerationApology)
  /\ UNCHANGED <<vectorStore, savedMessages>>
  /\ UNCHANGED <<routerVars, indexVars, searchVars>>

\* the post of ChatbotController.generateResponse settles
ControllerSettles(outcome) ==
  /\ gpc = "posted"
  /\ gpc' = "done"
  /\ Generated("returned", GenerateResponse(outcome))
  /\ UNCHANGED <<sender, userInput, conversationHistory, messages, vectorStore,
                 savedMessages>>
  /\ UNCHANGED <<routerVars, indexVars, searchVars>>

\* generateResponse of controllers/chatbot.js is called: validateMessage,
\* validateChatHistory, then knowledgeBase.initialize() when the vector store
\* is not set, otherwise knowledgeBase.query(userInput)
ChatbotGenerate(input, chatHistory) ==
  /\ gpc = "idle"
  /\ sender' = "chatbot"
  /\ userInput' = input
  /\ conversationHistory' = chatHistory
  /\ IF ValidateMessage(input)
     THEN /\ gpc' = IF vectorStore THEN "querying" ELSE "initializing"
          /\ UNCHANGED generated
     ELSE /\ gpc' = "done"
          /\ Generated("thrown", "Invalid message format")
  /\ UNCHANGED <<messages, vectorStore, savedMessages>>
  /\ UNCHANGED <<routerVars, indexVars, searchVars>>

\* await knowledgeBase.initialize() settles
KnowledgeBaseInitialized(ok) ==
  /\ gpc = "initializing"
  /\ IF ok
     THEN /\ vectorStore' = TRUE
          /\ gpc' = "querying"
          /\ UNCHANGED generated
     ELSE /\ gpc' = "done"
          /\ Generated("thrown", "knowledge base")
          /\ UNCHANGED vectorStore
  /\ UNCHANGED <<sender, userInput, conversationHistory, messages, savedMessages>>
  /\ UNCHANGED <<routerVars, indexVars, searchVars>>

\* await knowledgeBase.query(userInput) settles: the messages are built,
\* initChatModel throws without GROQ_API_KEY, otherwise model.invoke(messages)
\* is called
KnowledgeBaseQueried(outcome, hasApiKey) ==
  /\ gpc = "querying"
  /\ CASE outcome = "throws" ->
            /\ gpc' = "done"
            /\ Generated("thrown", "knowledge base")
            /\ UNCHANGED messages
       [] ~hasApiKey ->
            /\ gpc' = "done"
            /\ Generated("thrown", "GROQ_API_KEY environment variable is not set")
            /\ UNCHANGED messages
       [] OTHER ->
            /\ gpc' = "invoking"
            /\ messages' = ChatbotMessages(ValidateChatHistory(conversationHistory),
                                           outcome = "text")
            /\ UNCHANGED generated
  /\ UNCHANGED <<sender, userInput, conversationHistory, vectorStore, savedMessages>>
  /\ UNCHANGED <<routerVars, indexVars, searchVars>>

\* how the rest of the function can go once the model has answered
SaveOutcomes == {"no session", "first save throws", "second save throws", "saved"}

\* await model.invoke(messages) settles; with a sessionId the two turns are
\* saved by conversationService.addMessage; every error is rethrown
ModelInvoked(ok, save) ==
  /\ gpc = "invoking"
  /\ gpc' = "done"
  /\ IF ~ok
     THEN /\ Generated("thrown", "model")
          /\ UNCHANGED savedMessages
     ELSE /\ savedMessages' = CASE save = "saved" -> 2
                               [] save = "second save throws" -> 1
                               [] OTHER -> 0
          /\ IF save \in {"no session", "saved"}
             THEN Generated("returned", ModelText)
             ELSE Generated("thrown", "conversation service")
  /\ UNCHANGED <<sender, userInput, conversationHistory, messages, vectorStore>>
  /\ UNCHANGED <<routerVars, indexVars, searchVars>>

\* the call is over; knowledgeBase keeps its vector store
ChatDone ==
  /\ gpc = "done"
  /\ gpc' = "idle"
  /\ sender' = "none"
  /\ userInput' = Undefined
  /\ conversationHistory' = NotAnArray
  /\ messages' = <<>>
  /\ savedMessages' = 0
  /\ generated' = NotGenerated
  /\ UNCHANGED vectorStore
  /\ UNCHANGED <<routerVars, indexVars, searchVars>>

NextChat ==
  \/ \E q \in Queries, history \in Histories : ControllerGenerate(q, history)
  \/ \E outcome \in ChatOutcomes : ControllerSettles(outcome)
  \/ \E input \in Queries, chatHistory \in Histories : ChatbotGenerate(input, chatHistory)
  \/ \E ok \in BOOLEAN : KnowledgeBaseInitialized(ok)
  \/ \E outcome \in {"text", "empty", "throws"}, hasApiKey \in BOOLEAN :
       KnowledgeBaseQueried(outcome, hasApiKey)
  \/ \E ok \in BOOLEAN, save \in SaveOutcomes : ModelInvoked(ok, save)
  \/ ChatDone

SpecChat == Init /\ [][NextChat]_vars

(***************************************************************************)
(* Properties of the structured path                                       *)
(***************************************************************************)
Fetched == pc \in {"fetched", "formatted"}

DataKeys == {contextData.data[i].key : i \in DOMAIN contextData.data}
HasKey(k) == k \in DataKeys
Entry(k) == CHOOSE e \in {contextData.data[i] : i \in DOMAIN contextData.data} : e.key = k

SectionsWritten ==
  {formattedContext[i].tag : i \in DOMAIN formattedContext} \cap Headers

LookupsIssued == {calls[i].fn : i \in DOMAIN calls}

\* C1 (as stated): the bundle returned by fetchRelevantData never holds a key
\* whose value is an empty list or an empty object.
C1_NoEmptyDatasetKey ==
  Fetched =>
    \A i \in DOMAIN contextData.data :
      LET v == contextData.data[i].value
      IN /\ v.type = "array" => Len(v.items) > 0
         /\ v.type = "object" => DOMAIN v.fields # {}

\* C1 (amended): a key of the bundle may hold the empty list its lookup
\* returned; formatContextData writes no section for a key whose value is an
\* empty list or an empty object, and writes one for every other key.
C1_EmptyDatasetsNotRendered ==
  pc = "formatted" =>
    \A i \in DOMAIN contextData.data :
      LET e == contextData.data[i]
          empty == \/ e.value.type = "array" /\ Len(e.value.items) = 0
                   \/ e.value.type = "object" /\ DOMAIN e.value.fields = {}
      IN empty <=> HeaderOf(e.key) \notin SectionsWritten

C1_Witness ==
  /\ pc = "formatted"
  /\ HasKey("exams") /\ Len(Entry("exams").value.items) = 0
  /\ HasKey("facultyExams") /\ Len(Entry("facultyExams").value.items) > 0
  /\ SectionsWritten = {"FACULTYEXAMS:"}

FacultyStatsKeys == {"totalAllocations", "upcomingAllocations", "pastAllocations"}

\* C2 (as stated): for system_stats a Faculty caller's bundle always holds
\* facultyStats with exactly the three counters and never stats; an Admin
\* caller's bundle holds stats and never facultyStats.
C2_StatsByRoleAlways ==
  (Fetched /\ contextData.intent = "system_stats") =>
    /\ user.role = "Faculty" =>
         /\ HasKey("facultyStats")
         /\ DOMAIN Entry("facultyStats").value.fields = FacultyStatsKeys
         /\ ~HasKey("stats")
    /\ user.role = "Admin" =>
         /\ HasKey("stats")
         /\ ~HasKey("facultyStats")

\* C2 (amended): for system_stats a Faculty caller's bundle never holds stats
\* and holds facultyStats, with exactly the three counters, unless one of the
\* three lookups threw; an Admin caller's bundle never holds facultyStats and
\* holds stats unless getSystemStats threw.
C2_StatsByRole ==
  (Fetched /\ contextData.intent = "system_stats") =>
    /\ user.role = "Faculty" =>
         /\ ~HasKey("stats")
         /\ "getSystemStats" \notin LookupsIssued
         /\ HasKey("facultyStats") <=> ~caught
         /\ HasKey("facultyStats") =>
              DOMAIN Entry("facultyStats").value.fields = FacultyStatsKeys
    /\ user.role = "Admin" =>
         /\ ~HasKey("facultyStats")
         /\ LookupsIssued = {"getSystemStats"}
         /\ HasKey("stats") <=> ~caught

C2_Witness ==
  /\ pc = "fetched"
  /\ contextData.intent = "system_stats"
  /\ user.role = "Faculty"
  /\ HasKey("facultyStats")
  /\ Entry("facultyStats").value.fields.totalAllocations = MaxRecords
  /\ Len(calls) = 3

\* C3: for system_stats, getSystemStats is called and data.stats is set only
\* when the caller's role is Admin; an anonymous caller gets no global stats.
C3_GlobalStatsOnlyForAdmin ==
  (Fetched /\ contextData.intent = "system_stats") =>
    (("getSystemStats" \in LookupsIssued \/ HasKey("stats")) => user.role = "Admin")

\* C4: formatContextData lists at most 3 sample subjects per exam and at most
\* 5 sample students per student/room allocation record.
C4_SamplingCaps ==
  pc = "formatted" =>
    LET lines == formattedContext
        Count(tag) == Cardinality({i \in DOMAIN lines : lines[i].tag = tag})
    IN /\ \A i \in DOMAIN lines :
            /\ lines[i].tag = "Sample Subjects" => Len(lines[i].items) <= 3
            /\ lines[i].tag = "Sample Students" => Len(lines[i].items) <= 5
       /\ Count("Sample Subjects") <= Count("Exam")
       /\ Count("Sample Students") <= Count("Student Allocation")

C4_Witness ==
  /\ pc = "formatted"
  /\ \E i \in DOMAIN formattedContext :
       /\ formattedContext[i].tag = "Sample Students"
       /\ formattedContext[i].more
       /\ Len(formattedContext[i].items) = 5
  /\ \E i \in DOMAIN contextData.data :
       \E j \in DOMAIN contextData.data[i].value.items :
         Len(contextData.data[i].value.items[j].students) > 5

\* the same case for the subjects of an exam
C4_WitnessSubjects ==
  /\ pc = "formatted"
  /\ \E i \in DOMAIN formattedContext :
       /\ formattedContext[i].tag = "Sample Subjects"
       /\ formattedContext[i].more
       /\ Len(formattedContext[i].items) = 3

\* C8: for faculty_allocation with a Faculty caller, the allocations lookup
\* is issued with the caller's own id and name, whatever faculty_id or
\* faculty_name the classifier returned.
C8_AllocationsScopedToCaller ==
  (Fetched /\ contextData.intent = "faculty_allocation" /\ user.role = "Faculty") =>
    /\ Len(calls) >= 1
    /\ calls[1].fn = "findFacultyAllocations"
    /\ \A i \in DOMAIN calls :
         calls[i].fn = "findFacultyAllocations" =>
           /\ calls[i].facultyId = user._id
           /\ calls[i].facultyName = user.name
           /\ {"facultyId", "facultyName"} \subseteq calls[i].keys

C8_Witness ==
  /\ pc = "fetched"
  /\ contextData.intent = "faculty_allocation"
  /\ user = FacultyUser
  /\ analysisResult.faculty_id = "f2"
  /\ analysisResult.faculty_name # NoName
  /\ analysisResult.faculty_name # user.name
  /\ HasKey("allocations")
  /\ Len(Entry("allocations").value.items) > 0
  /\ calls[1].facultyId = "f1"

RoomInfoNoRoomAdmin ==
  /\ contextData.intent = "room_info"
  /\ analysisResult.room_number = Null
  /\ user.role = "Admin"

\* C9 (as stated): for room_info with no room-number slot and an Admin
\* caller, only the rooms lookup is issued and the formatted context holds a
\* ROOMS: section and no other dataset section.
C9_RoomsSectionOnlyAlways ==
  (pc = "formatted" /\ RoomInfoNoRoomAdmin) =>
    /\ Len(calls) = 1
    /\ calls[1].fn = "findRooms"
    /\ SectionsWritten = {"ROOMS:"}

\* C9 (amended): for room_info with no room-number slot and an Admin caller,
\* only the rooms lookup is issued, the formatted context holds no dataset
\* section other than ROOMS:, and it holds the ROOMS: section exactly when
\* the lookup returned at least one room.
C9_RoomsSectionOnly ==
  (pc = "formatted" /\ RoomInfoNoRoomAdmin) =>
    /\ Len(calls) = 1
    /\ calls[1].fn = "findRooms"
    /\ calls[1].roomNumber = Null
    /\ SectionsWritten \subseteq {"ROOMS:"}
    /\ "ROOMS:" \in SectionsWritten
         <=> (HasKey("rooms") /\ Len(Entry("rooms").value.items) > 0)

C9_Witness ==
  /\ pc = "formatted"
  /\ RoomInfoNoRoomAdmin
  /\ SectionsWritten = {"ROOMS:"}
  /\ Len(Entry("rooms").value.items) = MaxRecords

KnownIntents ==
  {"exam_info", "faculty_allocation", "room_info", "student_allocation",
   "faculty_info", "system_stats"}

\* C10: for an unclassified or general intent the router performs the broad
\* keyword search and stores its result as searchResults, and for a Faculty
\* caller it also stores the caller's own allocations as facultyData.
C10_GeneralSearchStored ==
  (Fetched /\ contextData.intent \notin KnownIntents) =>
    /\ Len(calls) >= 1
    /\ calls[1].fn = "searchAll"
    /\ ~caught =>
         /\ HasKey("searchResults")
         /\ user.role = "Faculty" => HasKey("facultyData")

\* the dataset key a lookup of the branch is assigned to, Null for a lookup
\* whose value is kept in a local
DatasetOf(intent, call) ==
  CASE intent = "exam_info" ->
         (CASE call.fn = "findExams" -> "exams"
            [] call.fn = "findSubjects" -> "subjects"
            [] OTHER -> "facultyExams")
    [] intent = "faculty_allocation" ->
         (IF call.fn = "findFacultyAllocations" THEN "allocations" ELSE "faculty")
    [] intent = "room_info" ->
         (CASE call.fn = "findRooms" -> "rooms"
            [] call.fn = "findStudentAllocations" -> "roomAllocations"
            [] "roomNumber" \in call.keys -> "facultyRoomAllocations"
            [] OTHER -> "facultyRooms")
    [] intent = "student_allocation" ->
         (CASE call.fn = "findFacultyAllocations" -> Null
            [] "roomIds" \in call.keys -> "facultyRoomStudents"
            [] OTHER -> "studentAllocations")
    [] intent = "faculty_info" -> "faculty"
    [] intent = "system_stats" ->
         (IF call.fn = "getSystemStats" THEN "stats" ELSE Null)
    [] OTHER ->
         (IF call.fn = "searchAll" THEN "searchResults" ELSE "facultyData")

\* the keys of the bundle, in the order they were assigned
KeySeq == [i \in DOMAIN contextData.data |-> contextData.data[i].key]

\* the keys assigned by the lookups that returned before the last lookup
KeysBeforeLastLookup ==
  LET before == IF Len(calls) = 0 THEN <<>> ELSE SubSeq(calls, 1, Len(calls) - 1)
      keys == [i \in DOMAIN before |-> DatasetOf(contextData.intent, before[i])]
  IN SelectSeq(keys, LAMBDA k : k # Null)

\* C11: when a lookup of an intent branch throws, fetchRelevantData returns
\* to processQuery the bundle holding exactly the datasets assigned before
\* the failing lookup, and processQuery formats that bundle and calls
\* response generation instead of answering with its own error message.
C11_PartialBundleOnFailure ==
  caught =>
    /\ pc \in {"fetched", "formatted", "responded"}
    /\ KeySeq = KeysBeforeLastLookup
    /\ pc \in {"formatted", "responded"} =>
         formattedContext = FormatContextData(contextData)
    /\ pc = "responded" =>
         /\ chatCalls = 1
         /\ response \in {ModelText, GenerationApology}

C11_Witness ==
  /\ pc = "responded"
  /\ caught
  /\ contextData.intent = "room_info"
  /\ Len(calls) = 3
  /\ KeySeq = <<"rooms", "roomAllocations">>
  /\ Len(Entry("rooms").value.items) > 0
  /\ "ROOMS:" \in SectionsWritten
  /\ chatCalls = 1
  /\ response = ModelText

\* C12: processQuery always returns a string; when the chat-completion call
\* fails (transport error, timeout, non-2xx status, malformed body) the
\* caller receives the fixed apology of generateResponse, never the error.
C12_ApologyOnGenerationFailure ==
  pc = "responded" =>
    /\ response \in {ModelText, GenerationApology, ProcessingApology}
    /\ chatCalls = 1 =>
         /\ chatOutcome \in ChatOutcomes
         /\ chatOutcome # "ok" => response = GenerationApology
         /\ chatOutcome = "ok" => response = ModelText
    /\ chatCalls = 0 => response = ProcessingApology

C12_Witness ==
  /\ pc = "responded"
  /\ chatCalls = 1
  /\ chatOutcome = "malformed body"
  /\ response = GenerationApology
  /\ Len(formattedContext) > 4

\* C20: every dataset header line written by formatContextData is followed
\* by at least one record or field line, and a dataset that is an empty list
\* or an empty object gets no header.
C20_NoEmptySection ==
  pc = "formatted" =>
    /\ \A i \in DOMAIN formattedContext :
         formattedContext[i].tag \in Headers =>
           /\ i < Len(formattedContext)
           /\ formattedContext[i + 1].tag \notin Headers \cup {""}
    /\ \A i \in DOMAIN contextData.data :
         IsEmptyData(contextData.data[i].value) =>
           HeaderOf(contextData.data[i].key) \notin SectionsWritten

(***************************************************************************)
(* Error handling of the semantic path and of the index                    *)
(***************************************************************************)
\* C13: in POST /admin a chat-completion call that fails is answered with a
\* fixed apology, not with status 500 and the message of the error.
C13_AdminApologyOnGenerationFailure ==
  (spc = "answered" /\ adminChatCalls = 1) =>
    /\ adminResponse.status = 200
    /\ adminResponse.body # "Chatbot failed: chat completion"

\* the handler got past `if (!query) throw new Error("Query is required")`
HadQuery == adminResponse.body # "Chatbot failed: Query is required"

\* C14: a POST /cache-data or POST /admin request that arrives while the
\* collection handle is undefined is refused with the not-ready error and
\* does not touch the collection.
C14_RefusedBeforeReady ==
  /\ \A r \in Rebuilds :
       (rpc[r] # "idle" /\ astraCollection = Null) =>
         /\ rebuildResponse[r] = "notReady"
         /\ ~deleted[r]
         /\ tasks[r] = NoTasks
  /\ (spc = "answered" /\ astraCollection = Null /\ HadQuery) =>
       /\ adminResponse.body = "Chatbot failed: Database not ready"
       /\ results = <<>>

\* how the references of the allocation or room allocation behind d resolve
JoinOf(d) ==
  IF d.type = "allocation" THEN sources.allocations[d.id]
  ELSE sources.roomAllocations[d.id]

\* C15: during a rebuild an allocation or room allocation whose joins do not
\* all resolve (a populated reference is null, or missing from its lookup
\* map) is skipped: its mapper ends without a document and without an error.
C15_UnresolvedJoinsSkipped ==
  \A r \in Rebuilds, d \in AllDocs :
    (tasks[r][d] # "none" /\ d.type # "exam" /\ JoinOf(d) # "resolved") =>
      /\ tasks[r][d] = "skipped"
      /\ d \notin collection

\* C16: when getEmbedding fails for one document of a rebuild, that document
\* is left out of the index and the rebuild is not reported as failed.
C16_EmbeddingFailureSkipsOneDocument ==
  \A r \in Rebuilds, d \in AllDocs :
    tasks[r][d] = "unembedded" => rebuildResponse[r] # "failed"

\* the documents a rebuild over src inserts when nothing fails
IndexableDocs(src) == {d \in SourceDocs(src) : TaskAtCreation(src, d) = "pending"}

\* every request has arrived and is over, its insert promises included
AllRebuildsOver == \A r \in Rebuilds : rpc[r] # "idle" /\ ~InFlight(r)

\* C17: at most one rebuild is in flight at any time, and when overlapping
\* POST /cache-data requests have all finished the collection holds exactly
\* one document per indexable source record.
C17_RebuildsSerialized ==
  /\ Cardinality({r \in Rebuilds : InFlight(r)}) <= 1
  /\ (AllRebuildsOver /\ \A r \in Rebuilds : rebuildResponse[r] = "success") =>
       collection = IndexableDocs(sources)

\* C18: a query that is missing, not a string or blank (what validateMessage
\* of controllers/chatbot.js rejects) is rejected by POST /admin before the
\* embedding call and the vector search.
C18_MalformedInputRejected ==
  (spc # "idle" /\ ~ValidateMessage(query)) =>
    /\ spc = "answered"
    /\ adminResponse = [status |-> 500, body |-> "Chatbot failed: Query is required"]
    /\ results = <<>>

\* the collection as it was when request r arrived, for a request that was
\* the first to arrive or arrived after a rebuild that succeeded, no other
\* request being in flight meanwhile
SetBefore(r) == IF pred[r] = 0 THEN {} ELSE snapshot[pred[r]]

\* C19: after a rebuild attempt, successful or failed, the collection holds
\* either the complete document set from before the attempt or the complete
\* newly derived set.
C19_ReplacedAllOrNothing ==
  \A r \in Rebuilds :
    (rebuildResponse[r] \in {"success", "failed"} /\ ~overlapped[r]
       /\ (pred[r] = 0 \/ rebuildResponse[pred[r]] = "success")) =>
      snapshot[r] \in {SetBefore(r), IndexableDocs(sources)}

(***************************************************************************)
(* Properties of the rebuild                                               *)
(***************************************************************************)
\* request b arrived after request a was answered, a being the last request
\* answered by then, both ran (neither was refused for a missing handle) and
\* both are answered
InSuccession(a, b) ==
  /\ pred[b] = a
  /\ rebuildResponse[a] \in {"success", "failed"}
  /\ rebuildResponse[b] \in {"success", "failed"}

RenderedOf(i) == {context[i].contents[j] : j \in DOMAIN context[i].contents}
RenderedDocs == UNION {RenderedOf(i) : i \in DOMAIN context}
RenderedCount ==
  LET RECURSIVE Sum(_)
      Sum(i) == IF i = 0 THEN 0 ELSE Len(context[i].contents) + Sum(i - 1)
  IN Sum(Len(context))

\* the vector search of the request has returned its results
SearchReturned ==
  /\ spc \in {"generating", "answered"}
  /\ results # <<>> \/ adminResponse.status = 200

AtLeast30 == {i \in DOMAIN results : results[i].similarity >= 30}

\* C6: exactly the retrieved results with similarity >= 0.30 are grouped and
\* rendered into the context; when no retrieved result reaches 0.30 the
\* handler answers 'No relevant exam data available' and the chat-completion
\* endpoint is never called.
C6_RelevantResultsRendered ==
  SearchReturned =>
    /\ RenderedDocs = {results[i].content : i \in AtLeast30}
    /\ RenderedCount = Cardinality(AtLeast30)
    /\ \A i \in DOMAIN context :
         \A j \in DOMAIN context[i].contents :
           context[i].header =
             (CASE context[i].contents[j].type = "exam" -> "EXAMS:"
                [] context[i].contents[j].type = "allocation" -> "FACULTY ALLOCATIONS:"
                [] OTHER -> "ROOM ALLOCATIONS:")
    /\ AtLeast30 = {} =>
         /\ adminResponse = [status |-> 200, body |-> NoRelevantData]
         /\ adminChatCalls = 0
    /\ AtLeast30 # {} => adminChatCalls = 1

C6_Witness ==
  /\ spc = "generating"
  /\ Len(results) = 7
  /\ Cardinality(AtLeast30) = 5
  /\ RenderedCount = 5
  /\ Len(context) = 3
  /\ \E i \in DOMAIN results : results[i].similarity = 30

\* the same path when all seven candidates are below the threshold
C6_WitnessNoneRelevant ==
  /\ spc = "answered"
  /\ Len(results) = 7
  /\ AtLeast30 = {}
  /\ adminResponse.body = NoRelevantData
  /\ adminChatCalls = 0

Thresholds == {0, 20, 25, 27, 30, 31, 90, 100}

KeptAt(threshold) ==
  LET kept == RelevantResults(results, threshold)
  IN {kept[i] : i \in DOMAIN kept}

\* C7: for a fixed retrieved result set, raising the relevance threshold
\* never increases the number of results kept, and the results kept at a
\* higher threshold are a subset of those kept at a lower one.
C7_FilterMonotonic ==
  \A lower \in Thresholds, higher \in Thresholds :
    lower <= higher =>
      /\ Len(RelevantResults(results, higher)) <= Len(RelevantResults(results, lower))
      /\ KeptAt(higher) \subseteq KeptAt(lower)

C7_Witness ==
  /\ spc = "generating"
  /\ Len(RelevantResults(results, 25)) = 7
  /\ Len(RelevantResults(results, 30)) = 4
  /\ Len(RelevantResults(results, 31)) = 2
  /\ relevantResults = RelevantResults(results, 30)

(***************************************************************************)
(* Properties of the messages sent to the chat model                       *)
(***************************************************************************)
\* a messages array has been handed to the chat model
Sent == gpc \in {"posted", "invoking", "done"} /\ messages # <<>>

\* the last min(5, n) turns of the caller's n-turn history, in their order
LastTurns ==
  LET n == Len(conversationHistory.items)
      k == IF n < 5 THEN n ELSE 5
  IN [i \in 1..k |-> conversationHistory.items[n - k + i]]

\* the messages are one system message, the turns, the current user turn
IsSystemTurnsCurrent(turns) ==
  /\ Len(messages) = Len(turns) + 2
  /\ messages[1].role = "system"
  /\ \A i \in DOMAIN turns :
       /\ messages[i + 1].kind = "history"
       /\ messages[i + 1].turn = turns[i].id
       /\ messages[i + 1].role = turns[i].role
  /\ messages[Len(messages)] = CurrentTurn

\* C21: the messages sent to the chat model are exactly one system message,
\* then the last min(5, n) turns of the n-turn conversation history in their
\* original order, then the current user turn.
C21_SystemSuffixCurrent ==
  Sent => IsSystemTurnsCurrent(LastTurns)

\* the part of C21 that concerns ChatbotController.generateResponse
ControllerSendsSuffix ==
  (Sent /\ sender = "controller") => IsSystemTurnsCurrent(LastTurns)

ControllerSendsSuffix_Witness ==
  /\ Sent /\ sender = "controller"
  /\ Len(conversationHistory.items) = 6
  /\ Len(messages) = 7
  /\ messages[2].turn = 2

(***************************************************************************)
(* The two-hop lookup of intent student_allocation                         *)
(***************************************************************************)
\* a Faculty caller asked about student allocations and named no room
FacultyAsksOwnRooms ==
  /\ Fetched
  /\ IntentOf(analysisResult) = "student_allocation"
  /\ FacultyIdOf(user) # Null
  /\ analysisResult.room_number = Null

\* the i-th lookup is the student-allocation lookup scoped to rooms
ScopedLookup(i) ==
  calls[i].fn = "findStudentAllocations" /\ "roomIds" \in calls[i].keys

\* the i-th lookup resolves the caller's own faculty allocations
OwnAllocationsLookup(i) ==
  calls[i].fn = "findFacultyAllocations" /\ calls[i].facultyId = user._id

\* C22: for intent student_allocation with a Faculty caller who named no
\* room, the lookup scoped to rooms is issued only after the lookup of the
\* caller's own faculty allocations has returned, and only when that lookup
\* returned at least one allocation; when it returned none, no scoped lookup
\* is issued and facultyRoomStudents is absent.
C22_TwoHopLookup ==
  FacultyAsksOwnRooms =>
    /\ \A i \in DOMAIN calls :
         ScopedLookup(i) =>
           /\ i > 1
           /\ OwnAllocationsLookup(i - 1)
           /\ calls[i - 1].returned >= 1
           /\ Len(calls[i].roomIds) <= calls[i - 1].returned
    /\ \A j \in DOMAIN calls :
         (OwnAllocationsLookup(j) /\ calls[j].returned = 0) =>
           /\ \A i \in DOMAIN calls : ~ScopedLookup(i)
           /\ ~HasKey("facultyRoomStudents")
    /\ HasKey("facultyRoomStudents") => \E i \in DOMAIN calls : ScopedLookup(i)

C22_Witness ==
  /\ FacultyAsksOwnRooms
  /\ Len(calls) = 3
  /\ OwnAllocationsLookup(2) /\ calls[2].returned = 2
  /\ ScopedLookup(3) /\ Len(calls[3].roomIds) = 1
  /\ HasKey("facultyRoomStudents")

====
